---- MODULE Spec2Model ----
(***************************************************************************)
(* A model of the minesweeper board engine MineBoard.                      *)
(*                                                                         *)
(* The repository holds two versions of the class:                         *)
(*   src/main.ts            built from a mine count, or from a fixed       *)
(*                          layout string (kind "count" and "layout");     *)
(*   src/unnamed/part_000   built from a per-position predicate, the       *)
(*                          randomer (kind "predicate").                   *)
(* isVaildPosition, nearByMine and touchingNoMine are the same text in     *)
(* both files and are modelled once.                                       *)
(*                                                                         *)
(* A Position, the string `${x}-${y}`, is modelled as the pair <<x, y>>:   *)
(* the string is an injective image of the pair, and the only place that   *)
(* parses it back (touchingNoMine) does so for non-negative coordinates.   *)
(***************************************************************************)
EXTENDS Integers, Sequences, FiniteSets, TLC

VARIABLES
    kind,             \* which constructor built the board
    built,            \* FALSE when the constructor threw
    seed,             \* the parsed rows of the layout string (kind "layout")
    randomer,         \* the predicate (kind "predicate")
    width, height,
    mineCount,
    totalSpaceCount,  \* part_000 only
    slots,            \* Record<Position, MineSlot>
    state,
    revealCount,
    fieldInited,
    lastClick,        \* the arguments of the last call of click
    ret,              \* how the last call of click ended, and what it returned
    clicks            \* valid clicks so far: 0, 1 or 2 (two or more)

vars == << kind, built, seed, randomer, width, height, mineCount,
           totalSpaceCount, slots, state, revealCount, fieldInited,
           lastClick, ret, clicks >>

\* The largest width * height of the boards explored whose mines are placed
\* by the first click (built from a mine count or from a predicate).
MaxCells == 4

\* The largest width * height of the boards explored that are built from a
\* layout string.
MaxLayoutCells == 6

\* revealCount grows without limit when revealed cells are clicked again:
\* a board in play is explored while revealCount exceeds the number of
\* revealed cells by less than this.
MaxOvercount == 2

----------------------------------------------------------------------------
(* Helpers on sequences and functions *)

Range(s) == { s[i] : i \in DOMAIN s }

Min(S) == CHOOSE m \in S : \A n \in S : m <= n

Max(S) == CHOOSE m \in S : \A n \in S : m >= n

Empty == << >>

----------------------------------------------------------------------------
(* Data *)

Pos(x, y) == << x, y >>

deltaMap ==
    << [x |-> -1, y |-> 1], [x |-> -1, y |-> 0], [x |-> -1, y |-> -1],
       [x |-> 0, y |-> -1], [x |-> 0, y |-> 1],
       [x |-> 1, y |-> 1], [x |-> 1, y |-> 0], [x |-> 1, y |-> -1] >>

MineSlot(hasMine) == [hasMine |-> hasMine, nearbyMine |-> 0, reveal |-> FALSE]

IsVaildPosition(x, y) == ~(x < 0 \/ x >= width \/ y < 0 \/ y >= height)

\* The positions 0 <= x < w, 0 <= y < h.
Grid(w, h) == { Pos(x, y) : x \in 0 .. (w - 1), y \in 0 .. (h - 1) }

NearByMine(s, i, j) ==
    Cardinality({ d \in DOMAIN deltaMap :
        LET position == Pos(i + deltaMap[d].x, j + deltaMap[d].y)
        IN  position \in DOMAIN s /\ s[position].hasMine })

\* The double loop of initNearbyMine visits (i, j) in this order, 0-based.
ScanIndex(h, p) == p[1] * h + p[2]

\* initNearbyMine: writes nearbyMine cell by cell, i outer and j inner, and
\* faults (TypeError: slots[position] is undefined) at the first position of
\* the grid that has no slot; the cells before it keep what was written.
InitNearbyMine(s, w, h) ==
    LET missing == { p \in Grid(w, h) : p \notin DOMAIN s }
        stop == IF missing = {} THEN w * h
                ELSE Min({ ScanIndex(h, p) : p \in missing })
    IN  [ fault |-> missing # {},
          slots |-> [ p \in DOMAIN s |->
                        IF p \in Grid(w, h) /\ ScanIndex(h, p) < stop
                        THEN [ s[p] EXCEPT !.nearbyMine = NearByMine(s, p[1], p[2]) ]
                        ELSE s[p] ] ]

----------------------------------------------------------------------------
(* main.ts: initField, mine-count mode *)

\* Array.from({length: width * height}, index => `${floor(index / width)}-${index % height}`)
Candidates(w, h) ==
    [ k \in 1 .. (w * h) |-> Pos((k - 1) \div w, (k - 1) % h) ]

Swap(s, a, b) == [ s EXCEPT ![a] = s[b], ![b] = s[a] ]

\* for (i = length - 1; i > 0; i--) { j = floor(random() * (i + 1)); swap i, j }
\* rnd[i] is the j drawn at the step i (0-based positions, 1-based sequence).
RECURSIVE Shuffle(_, _, _)
Shuffle(positions, i, rnd) ==
    IF i > 0
    THEN Shuffle(Swap(positions, i + 1, rnd[i] + 1), i - 1, rnd)
    ELSE positions

\* Every outcome of the random draws of a shuffle of n positions:
\* one j in 0 .. i for each i in 1 .. n - 1.
RECURSIVE Draws(_)
Draws(n) ==
    IF n <= 1 THEN { Empty }
    ELSE { Append(r, j) : r \in Draws(n - 1), j \in 0 .. (n - 1) }

\* positions.forEach((position, i) => slots[position] = new MineSlot(i < mineCount)):
\* a position that occurs twice keeps the slot written last.
Place(positions, mc) ==
    [ p \in Range(positions) |->
        MineSlot((Max({ i \in DOMAIN positions : positions[i] = p }) - 1) < mc) ]

InitField(x, y, rnd) ==
    LET clickPosition == Pos(x, y)
        positions == SelectSeq(Candidates(width, height),
                               LAMBDA position : position # clickPosition)
        shuffled == Shuffle(positions, Len(positions) - 1, rnd)
    IN  InitNearbyMine(Place(Append(shuffled, clickPosition), mineCount), width, height)

\* The number of random draws initField makes on a first click at (x, y).
ShuffleLen(x, y) ==
    Len(SelectSeq(Candidates(width, height), LAMBDA position : position # Pos(x, y)))

----------------------------------------------------------------------------
(* part_000: initField, predicate mode *)

InitField_p(x, y) ==
    LET clickPosition == Pos(x, y)
        placed == [ p \in Grid(width, height) |->
                      MineSlot(IF p = clickPosition THEN FALSE ELSE randomer[p]) ]
    IN  [ fault |-> FALSE,
          slots |-> InitNearbyMine(placed, width, height).slots,
          space |-> Cardinality({ p \in Grid(width, height) : ~placed[p].hasMine }) ]

----------------------------------------------------------------------------
(* touchingNoMine *)

\* A faulty variant of Expand: stack.includes(position) is not tested.
RECURSIVE Expand_noStackCheck(_, _, _, _, _, _)
Expand_noStackCheck(s, i, j, k, stack, result) ==
    IF k > Len(deltaMap) THEN [fault |-> FALSE, stack |-> stack]
    ELSE LET x == deltaMap[k].x
             y == deltaMap[k].y
             position == Pos(x + i, y + j)
         IN  IF ~IsVaildPosition(x + i, y + j)
             THEN Expand_noStackCheck(s, i, j, k + 1, stack, result)
             ELSE IF position \notin DOMAIN s
             THEN [fault |-> TRUE, stack |-> stack]
             ELSE IF \/ s[position].hasMine
                     \/ s[position].reveal
                     \/ position \in Range(result)
             THEN Expand_noStackCheck(s, i, j, k + 1, stack, result)
             ELSE Expand_noStackCheck(s, i, j, k + 1, Append(stack, position), result)

\* The for loop over deltaMap from its k-th entry, for the popped cell (i, j):
\* the stack after it, or a fault when a valid position has no slot.
RECURSIVE Expand(_, _, _, _, _, _)
Expand(s, i, j, k, stack, result) ==
    IF k > Len(deltaMap) THEN [fault |-> FALSE, stack |-> stack]
    ELSE LET x == deltaMap[k].x
             y == deltaMap[k].y
             position == Pos(x + i, y + j)
         IN  IF ~IsVaildPosition(x + i, y + j)
             THEN Expand(s, i, j, k + 1, stack, result)
             ELSE IF position \notin DOMAIN s
             THEN [fault |-> TRUE, stack |-> stack]
             ELSE IF \/ s[position].hasMine
                     \/ s[position].reveal
                     \/ position \in Range(result)
                     \/ position \in Range(stack)
             THEN Expand(s, i, j, k + 1, stack, result)
             ELSE Expand(s, i, j, k + 1, Append(stack, position), result)

\* A faulty variant of Flood: a numbered cell is expanded like a zero-count one.
RECURSIVE Flood_numbered(_, _, _)
Flood_numbered(s, stack, result) ==
    IF Len(stack) = 0 THEN [fault |-> FALSE, result |-> result]
    ELSE LET current == stack[Len(stack)]
             popped == SubSeq(stack, 1, Len(stack) - 1)
             pushed == Append(result, current)
             e == Expand(s, current[1], current[2], 1, popped, pushed)
         IN  IF e.fault THEN [fault |-> TRUE, result |-> pushed]
             ELSE Flood_numbered(s, e.stack, pushed)

\* while (stack.length != 0) { current = stack.pop(); result.push(current); ... }
RECURSIVE Flood(_, _, _)
Flood(s, stack, result) ==
    IF Len(stack) = 0 THEN [fault |-> FALSE, result |-> result]
    ELSE LET current == stack[Len(stack)]
             popped == SubSeq(stack, 1, Len(stack) - 1)
             pushed == Append(result, current)
         IN  IF s[current].nearbyMine > 0
             THEN Flood(s, popped, pushed)
             ELSE LET e == Expand(s, current[1], current[2], 1, popped, pushed)
                  IN  IF e.fault THEN [fault |-> TRUE, result |-> pushed]
                      ELSE Flood(s, e.stack, pushed)

\* A fault is the Error thrown for a mined start cell, or the TypeError of
\* reading a slot that does not exist.
TouchingNoMine(s, ox, oy) ==
    LET position == Pos(ox, oy)
    IN  IF s[position].hasMine THEN [fault |-> TRUE, result |-> Empty]
        ELSE Flood(s, << position >>, Empty)

----------------------------------------------------------------------------
(* click *)

\* A faulty variant of MineCheck: the mine is not noticed.
MineCheck_ignored(s, position, st) == st

\* A variant of MineCheck that leaves a finished board as it is: the mine is
\* looked at only while the board is in play.
MineCheck_inPlay(s, position, st) ==
    IF st = "playing" /\ s[position].hasMine THEN "dead" ELSE st

\* if (this.slots[position].hasMine) this.state = "dead";
MineCheck(s, position, st) == IF s[position].hasMine THEN "dead" ELSE st

\* A faulty variant of Reveal: the flag of every cell is set from the result,
\* so a cell revealed earlier is hidden again.
Reveal_onlyResult(s, result) ==
    [ p \in DOMAIN s |-> [ s[p] EXCEPT !.reveal = (p \in Range(result)) ] ]

\* slot.reveal = true for every position of the result.
Reveal(s, result) ==
    [ p \in DOMAIN s |->
        IF p \in Range(result) THEN [ s[p] EXCEPT !.reveal = TRUE ] ELSE s[p] ]

\* this.revealCount++ once per entry of the result.
Counted(rc, result) == rc + Len(result)

RevealEvents(s, result) ==
    [ k \in DOMAIN result |->
        [position |-> result[k], nearbyMine |-> s[result[k]].nearbyMine] ]

\* main.ts: width * height - mineCount
WinTarget == width * height - mineCount

\* A faulty variant of WinCheck: at least the target, instead of exactly.
WinCheck_atLeast(rc, target, st) == IF rc >= target THEN "win" ELSE st

\* if (this.revealCount === target) this.state = "win";
WinCheck(rc, target, st) == IF rc = target THEN "win" ELSE st

Thrown == [tag |-> "throw", state |-> "playing", reveals |-> Empty]

Returned(st, reveals) == [tag |-> "return", state |-> st, reveals |-> reveals]

\* The part of click after initField, on the slots s that initField left.
\* target is the reveal count that wins.
AfterInit(s, x, y, target) ==
    LET position == Pos(x, y)
    IN  IF position \notin DOMAIN s
        THEN /\ ret' = Thrown
             /\ slots' = s
             /\ UNCHANGED << state, revealCount >>
        ELSE LET st == MineCheck(s, position, state)
             IN  IF st # "playing"
                 THEN /\ state' = st
                      /\ ret' = Returned(st, Empty)
                      /\ slots' = s
                      /\ UNCHANGED revealCount
                 ELSE LET t == TouchingNoMine(s, x, y)
                      IN  IF t.fault
                          THEN /\ ret' = Thrown
                               /\ slots' = s
                               /\ UNCHANGED << state, revealCount >>
                          ELSE LET rc == Counted(revealCount, t.result)
                                   s2 == Reveal(s, t.result)
                                   st2 == WinCheck(rc, target, st)
                               IN  /\ slots' = s2
                                   /\ revealCount' = rc
                                   /\ state' = st2
                                   /\ ret' = Returned(st2, RevealEvents(s2, t.result))

Bump(n) == IF n < 2 THEN n + 1 ELSE n

\* A faulty variant of ClickOutside: the board is marked as initialized
\* before the position is tested.
ClickOutside_marks(x, y) ==
    /\ built
    /\ ~IsVaildPosition(x, y)
    /\ lastClick' = Pos(x, y)
    /\ ret' = Thrown
    /\ fieldInited' = TRUE
    /\ UNCHANGED << kind, built, seed, randomer, width, height, mineCount,
                    totalSpaceCount, slots, state, revealCount, clicks >>

\* click(x, y) with an invalid position: throws before anything is touched.
ClickOutside(x, y) ==
    /\ built
    /\ ~IsVaildPosition(x, y)
    /\ lastClick' = Pos(x, y)
    /\ ret' = Thrown
    /\ UNCHANGED << kind, built, seed, randomer, width, height, mineCount,
                    totalSpaceCount, slots, state, revealCount, fieldInited, clicks >>

\* main.ts click(x, y) on a board that initField has already seen
\* (or that the layout constructor initialized).
Click(x, y) ==
    /\ built
    /\ kind \in {"count", "layout"}
    /\ IsVaildPosition(x, y)
    /\ fieldInited
    /\ lastClick' = Pos(x, y)
    /\ clicks' = Bump(clicks)
    /\ AfterInit(slots, x, y, WinTarget)
    /\ UNCHANGED << kind, built, seed, randomer, width, height, mineCount,
                    totalSpaceCount, fieldInited >>

\* main.ts click(x, y) when initField places the mines.
ClickInit(x, y) ==
    /\ built
    /\ kind = "count"
    /\ IsVaildPosition(x, y)
    /\ ~fieldInited
    /\ lastClick' = Pos(x, y)
    /\ clicks' = Bump(clicks)
    /\ fieldInited' = TRUE
    /\ \E rnd \in Draws(ShuffleLen(x, y)) :
          LET init == InitField(x, y, rnd)
          IN  IF init.fault
              THEN /\ slots' = init.slots
                   /\ ret' = Thrown
                   /\ UNCHANGED << state, revealCount >>
              ELSE AfterInit(init.slots, x, y, WinTarget)
    /\ UNCHANGED << kind, built, seed, randomer, width, height, mineCount,
                    totalSpaceCount >>

\* A faulty variant of Click_p: initField has lost its test of fieldInited
\* and places the mines again on every click.
Click_p_again(x, y) ==
    /\ built
    /\ kind = "predicate"
    /\ IsVaildPosition(x, y)
    /\ lastClick' = Pos(x, y)
    /\ clicks' = Bump(clicks)
    /\ fieldInited' = TRUE
    /\ LET init == InitField_p(x, y)
       IN  /\ totalSpaceCount' = totalSpaceCount + init.space
           /\ AfterInit(init.slots, x, y, totalSpaceCount + init.space)
    /\ UNCHANGED << kind, built, seed, randomer, width, height, mineCount >>

\* part_000 click(x, y).
Click_p(x, y) ==
    /\ built
    /\ kind = "predicate"
    /\ IsVaildPosition(x, y)
    /\ lastClick' = Pos(x, y)
    /\ clicks' = Bump(clicks)
    /\ fieldInited' = TRUE
    /\ IF fieldInited
       THEN /\ AfterInit(slots, x, y, totalSpaceCount)
            /\ UNCHANGED totalSpaceCount
       ELSE LET init == InitField_p(x, y)
            IN  /\ totalSpaceCount' = totalSpaceCount + init.space
                /\ AfterInit(init.slots, x, y, totalSpaceCount + init.space)
    /\ UNCHANGED << kind, built, seed, randomer, width, height, mineCount >>

----------------------------------------------------------------------------
(* Construction *)

Shapes(n) == { wh \in (1 .. n) \X (1 .. n) : wh[1] * wh[2] <= n }

NoRet == [tag |-> "none", state |-> "playing", reveals |-> Empty]

\* new MineBoard(width, height, mineCount): throws for mineCount >= width * height.
InitCount ==
    \E wh \in Shapes(MaxCells) : \E mc \in (-1) .. (wh[1] * wh[2]) :
        /\ kind = "count"
        /\ built = ~(mc >= wh[1] * wh[2])
        /\ seed = Empty
        /\ randomer = Empty
        /\ width = wh[1]
        /\ height = wh[2]
        /\ mineCount = mc
        /\ totalSpaceCount = 0
        /\ slots = Empty
        /\ fieldInited = FALSE

\* The slots the layout constructor writes from the parsed rows.
SeedSlots(rows) ==
    [ p \in Grid(Len(rows[1]), Len(rows)) |-> MineSlot(rows[p[2] + 1][p[1] + 1] = "x") ]

\* new MineBoard(_, _, slots: string): the rows are the lines of the string,
\* split at white space; every row is as long as the first.
InitLayout ==
    \E wh \in Shapes(MaxLayoutCells) : \E rows \in [1 .. wh[2] -> [1 .. wh[1] -> {"_", "x"}]] :
        /\ kind = "layout"
        /\ built = TRUE
        /\ seed = rows
        /\ randomer = Empty
        /\ width = Len(rows[1])
        /\ height = Len(rows)
        /\ mineCount = Cardinality({ p \in DOMAIN SeedSlots(rows) : SeedSlots(rows)[p].hasMine })
        /\ totalSpaceCount = 0
        /\ slots = InitNearbyMine(SeedSlots(rows), Len(rows[1]), Len(rows)).slots
        /\ fieldInited = TRUE

\* new MineBoard(width, height, randomer)
InitPredicate ==
    \E wh \in Shapes(MaxCells) : \E f \in [Grid(wh[1], wh[2]) -> BOOLEAN] :
        /\ kind = "predicate"
        /\ built = TRUE
        /\ seed = Empty
        /\ randomer = f
        /\ width = wh[1]
        /\ height = wh[2]
        /\ mineCount = 0
        /\ totalSpaceCount = 0
        /\ slots = Empty
        /\ fieldInited = FALSE

Init ==
    /\ InitCount \/ InitLayout \/ InitPredicate
    /\ state = "playing"
    /\ revealCount = 0
    /\ lastClick = Empty
    /\ ret = NoRet
    /\ clicks = 0

\* How far revealCount is ahead of the cells that are revealed.
Overcount == revealCount - Cardinality({ p \in DOMAIN slots : slots[p].reveal })

Explored == state = "playing" => Overcount < MaxOvercount

\* The invalid positions clicked: one for each way isVaildPosition fails.
Outside == { Pos(-1, 0), Pos(width, 0), Pos(0, -1), Pos(0, height) }

ClickOutsideStep == \E p \in Outside : ClickOutside(p[1], p[2])

ClickStep == \E p \in Grid(width, height) : Explored /\ Click(p[1], p[2])

ClickInitStep == \E p \in Grid(width, height) : ClickInit(p[1], p[2])

Click_pStep == \E p \in Grid(width, height) : Explored /\ Click_p(p[1], p[2])

Next ==
    \/ ClickOutsideStep
    \/ ClickStep
    \/ ClickInitStep
    \/ Click_pStep

Spec == Init /\ [][Next]_vars

----------------------------------------------------------------------------
(* Vocabulary of the properties *)

Cells == Grid(width, height)

\* The cells of the board that hold a mine.
Mined == { p \in Cells : p \in DOMAIN slots /\ slots[p].hasMine }

\* The cells of the board that are revealed.
Revealed == { p \in Cells : p \in DOMAIN slots /\ slots[p].reveal }

\* Every cell of the board without a mine is revealed.
AllSafeRevealed ==
    \A p \in Cells : p \in DOMAIN slots /\ (slots[p].hasMine \/ slots[p].reveal)

\* The Moore neighbours of p that lie on the board.
Moore(p) ==
    { q \in Cells : q # p /\ q[1] - p[1] \in -1 .. 1 /\ q[2] - p[2] \in -1 .. 1 }

\* The reveal count at which click declares the win.
Target == IF kind = "predicate" THEN totalSpaceCount ELSE WinTarget

\* The last call of click was made at a valid position.
ValidCall == ret.tag # "none" /\ IsVaildPosition(lastClick[1], lastClick[2])

\* The last call of click was the first one at a valid position.
FirstCall == clicks = 1 /\ ValidCall

\* The boards whose mine placement is not touched by the faults of initField
\* on boards that are not square and of a negative mine count.
SoundBoard == kind = "count" => (width = height /\ mineCount >= 0)

\* The step is a call click(x, y) at a valid position (x, y) = lastClick'.
ValidClickStep == clicks' # clicks \/ (clicks = 2 /\ IsVaildPosition(lastClick'[1], lastClick'[2]))

----------------------------------------------------------------------------
(* Properties *)

\* C1: once state is "dead" or "win" no click changes it again
\* (stated for the boards of SoundBoard).
C1_TerminalStateStable ==
    [][ (SoundBoard /\ state \in {"dead", "win"}) => (state' = state) ]_vars

\* C2: on a board built from a mine count 0 <= mineCount < width * height,
\* after the first valid click the clicked cell holds no mine, and that click
\* does not return "dead".
C2_SafeFirstClick ==
    (kind = "count" /\ built /\ mineCount >= 0 /\ FirstCall) =>
        /\ lastClick \in DOMAIN slots
        /\ ~slots[lastClick].hasMine
        /\ ~(ret.tag = "return" /\ ret.state = "dead")

\* What the layout or the predicate says of position p.
Says(p) ==
    IF kind = "layout" THEN seed[p[2] + 1][p[1] + 1] = "x" ELSE randomer[p]

\* C3: on a board built from a layout or a predicate, after the first valid
\* click the clicked cell holds no mine, every other cell holds a mine exactly
\* when the layout or predicate says so, and that click does not return "dead".
C3_DeterministicPlacement ==
    (kind \in {"layout", "predicate"} /\ FirstCall) =>
        /\ ~slots[lastClick].hasMine
        /\ \A p \in Cells \ {lastClick} : slots[p].hasMine = Says(p)
        /\ ret.state # "dead"

\* C4: on a board built from a mine count 0 <= mineCount < width * height,
\* once the first click has placed the mines exactly mineCount cells of the
\* board hold a mine.
C4_MineCountConserved ==
    (kind = "count" /\ built /\ mineCount >= 0 /\ fieldInited) =>
        Cardinality(Mined) = mineCount

\* C5: on a board built from a mine count, after the first click the cell map
\* holds a cell for exactly the positions of the board, and the click that
\* placed the mines did not fault.
C5_SlotsCoverBoard ==
    (kind = "count" /\ built /\ fieldInited) =>
        /\ DOMAIN slots = Cells
        /\ (FirstCall => ret.tag = "return")

\* C6: state is "win" only if every cell without a mine is revealed, and a
\* click that returns without hitting a mine and leaves every cell without a
\* mine revealed returns "win" (stated for the boards of SoundBoard).
C6_WinIffAllSafeRevealed ==
    (built /\ fieldInited /\ SoundBoard) =>
        /\ state = "win" => AllSafeRevealed
        /\ (ValidCall /\ ret.tag = "return" /\ ret.state # "dead" /\ AllSafeRevealed)
              => ret.state = "win"

\* C7: state is "win" only while revealCount equals the target (width * height
\* - mineCount, or totalSpaceCount on a predicate board), a board is not left
\* "playing" by a click whose reveals brought revealCount to the target, and a
\* click moves state to "win" only by reveals that reach the target.
C7_WinExactness ==
    [][ /\ state' = "win" => revealCount' = Target'
        /\ (ValidClickStep /\ ret'.tag = "return" /\ ret'.reveals # Empty
              /\ revealCount' = Target') => state' # "playing"
        /\ (state # "win" /\ state' = "win") =>
              (ret'.state = "win" /\ ret'.reveals # Empty /\ revealCount' # revealCount)
      ]_vars

\* C7 witness: a click has just won a board at the target, with cells revealed before it.
C7_Witness ==
    /\ state = "win" /\ ret.tag = "return" /\ ret.state = "win"
    /\ revealCount = Target
    /\ Len(ret.reveals) < revealCount
    /\ Mined # {}

\* C8: once the board is initialized every cell's nearbyMine is the number of
\* its Moore neighbours on the board that hold a mine.
C8_NearbyMineCorrect ==
    (built /\ fieldInited) =>
        \A p \in Cells :
            /\ p \in DOMAIN slots
            /\ slots[p].nearbyMine = Cardinality(Moore(p) \cap Mined)

\* C9: a click on a mined cell of a board in play sets state to "dead", returns
\* no reveals, and changes no cell and not revealCount.
C9_DeathFrame ==
    [][ ( /\ state = "playing"
          /\ ValidClickStep
          /\ lastClick' \in DOMAIN slots
          /\ slots[lastClick'].hasMine )
        => ( /\ state' = "dead"
             /\ ret' = Returned("dead", Empty)
             /\ slots' = slots
             /\ revealCount' = revealCount ) ]_vars

\* C9 witness: a board with revealed cells died on a click at a mined cell.
C9_Witness ==
    /\ state = "dead" /\ ret = Returned("dead", Empty)
    /\ ValidCall /\ slots[lastClick].hasMine
    /\ Revealed # {}
    /\ revealCount > 0

\* C10: a valid click on a board whose state is "dead" or "win" returns no
\* reveals and changes no cell and not revealCount.
C10_TerminalFrame ==
    [][ (state \in {"dead", "win"} /\ ValidClickStep)
        => ( /\ ret'.tag = "return"
             /\ ret'.reveals = Empty
             /\ slots' = slots
             /\ revealCount' = revealCount ) ]_vars

\* The step is a call click(x, y) at an invalid position (x, y) = lastClick'.
OutsideClickStep == ~IsVaildPosition(lastClick'[1], lastClick'[2])

\* C11: a click at an invalid position throws and changes no field of the
\* board; a board that was not initialized stays so, and the next valid click
\* on it is the one that initializes it, with a slot for its own position.
C11_OutOfBoundsFrame ==
    [][ /\ OutsideClickStep =>
            /\ ret'.tag = "throw"
            /\ UNCHANGED << width, height, mineCount, totalSpaceCount, slots,
                            state, revealCount, fieldInited, clicks >>
        /\ (ValidClickStep /\ ~fieldInited) =>
            /\ clicks = 0
            /\ slots = Empty
            /\ fieldInited'
            /\ lastClick' \in DOMAIN slots'
      ]_vars

\* C11 witness: a click at an invalid position has thrown on a board that no
\* valid click has initialized yet, and the board is still not initialized.
C11_Witness ==
    /\ built /\ kind # "layout"
    /\ ret.tag = "throw" /\ ~IsVaildPosition(lastClick[1], lastClick[2])
    /\ clicks = 0 /\ ~fieldInited /\ slots = Empty
    /\ state = "playing" /\ revealCount = 0

\* C12: the mine-count constructor produces a board exactly when
\* 0 <= mineCount < width * height, and the board it produces is in play.
C12_MineCountValidated ==
    kind = "count" =>
        /\ built <=> (0 <= mineCount /\ mineCount < width * height)
        /\ (built /\ clicks = 0) => state = "playing"

\* C13: no click lowers revealCount, and no click hides a revealed cell.
C13_MonotonicReveal ==
    [][ /\ revealCount' >= revealCount
        /\ \A p \in DOMAIN slots :
              slots[p].reveal => (p \in DOMAIN slots' /\ slots'[p].reveal)
      ]_vars

\* C13 witness: a click has revealed cells on a board where other cells were
\* revealed before it, and those are still revealed.
C13_Witness ==
    /\ ValidCall /\ ret.tag = "return" /\ ret.reveals # Empty
    /\ \E p \in Revealed : \A k \in DOMAIN ret.reveals : ret.reveals[k].position # p
    /\ revealCount > Len(ret.reveals)

\* C14: the mines are placed and the neighbours counted by no click but the
\* first valid one: a board becomes initialized only by a valid click made
\* when no valid click came before, and on an initialized board no click
\* changes the set of cells, a cell's hasMine or a cell's nearbyMine.
C14_InitOnce ==
    [][ /\ (~fieldInited /\ fieldInited') => (ValidClickStep /\ clicks = 0)
        /\ ~fieldInited => slots = Empty
        /\ fieldInited =>
              /\ fieldInited'
              /\ DOMAIN slots' = DOMAIN slots
              /\ \A p \in DOMAIN slots :
                    /\ slots'[p].hasMine = slots[p].hasMine
                    /\ slots'[p].nearbyMine = slots[p].nearbyMine
      ]_vars

\* C14 witness: on a board that the first click initialized, a later click
\* was made at a mined cell, and the cell still holds its mine.
C14_Witness ==
    /\ kind # "layout" /\ fieldInited
    /\ clicks = 2 /\ ValidCall /\ ret.tag = "return"
    /\ lastClick \in DOMAIN slots /\ slots[lastClick].hasMine
    /\ \E p \in Cells : p \in DOMAIN slots /\ slots[p].nearbyMine > 0

\* The positions of the reveals that the last call of click returned.
Reported == { ret.reveals[k].position : k \in DOMAIN ret.reveals }

\* The board was built without mines: mine count 0, or a predicate that is
\* false everywhere.
NoMines ==
    \/ kind = "count" /\ built /\ mineCount = 0
    \/ kind = "predicate" /\ \A p \in Cells : ~randomer[p]

\* C15: on a board built without mines the first valid click returns "win"
\* and a reveals list of width * height entries, one for every cell.
C15_NoMinesFirstClickWins ==
    (NoMines /\ FirstCall) =>
        /\ ret.tag = "return"
        /\ ret.state = "win"
        /\ Len(ret.reveals) = width * height
        /\ Reported = Cells

\* C16: on a board built with mineCount = width * height - 1 the first valid
\* click returns "win" and one reveal, the clicked cell.
C16_OneSafeCellFirstClickWins ==
    (kind = "count" /\ built /\ mineCount = width * height - 1 /\ FirstCall) =>
        /\ ret.tag = "return"
        /\ ret.state = "win"
        /\ Len(ret.reveals) = 1
        /\ Reported = {lastClick}

\* The boards of the two scenarios of C17: a layout with a single mine, and a
\* predicate board on which every cell but the first-clicked one holds a mine.
SecondClickScenario ==
    \/ kind = "layout" /\ mineCount = 1
    \/ kind = "predicate" /\ fieldInited /\ Cardinality(Mined) = width * height - 1

\* C17: on the boards of SecondClickScenario a valid click made after the
\* first one, at a cell that holds a mine, returns "dead" and no reveals.
C17_SecondClickOnMine ==
    ( /\ SecondClickScenario
      /\ clicks = 2 /\ ValidCall
      /\ slots[lastClick].hasMine )
    => ( /\ ret = Returned("dead", Empty)
         /\ state = "dead" )

\* C17 witness: on a predicate board with more than one cell, all mined but
\* the first-clicked one, a later click at a mined cell has returned "dead".
C17_Witness ==
    /\ kind = "predicate" /\ fieldInited /\ width * height > 1
    /\ Cardinality(Mined) = width * height - 1
    /\ clicks = 2 /\ ValidCall /\ slots[lastClick].hasMine
    /\ ret = Returned("dead", Empty)
    /\ revealCount = 1 /\ revealCount = Target

\* C18: revealCount is the number of cells whose reveal flag is set, and a
\* returned click reports only cells that were unrevealed before it, each once.
C18_RevealCountExact ==
    (built /\ SoundBoard) => revealCount = Cardinality(Revealed)

\* Two distinct cells that touch by a side or a corner.
Adjacent(p, q) ==
    /\ p # q
    /\ p[1] - q[1] \in -1..1
    /\ p[2] - q[2] \in -1..1

\* The mine-free cells of the board whose slot carries the count 0.
ZeroCells(s) ==
    { p \in Cells : p \in DOMAIN s /\ ~s[p].hasMine /\ s[p].nearbyMine = 0 }

\* The zero-count cells joined to the cells of `reached` by a chain of adjacent
\* zero-count cells: a least fixed point, with no order of visits in it.
RECURSIVE ZeroChain(_, _)
ZeroChain(s, reached) ==
    LET more == { q \in ZeroCells(s) \ reached : \E p \in reached : Adjacent(p, q) }
    IN  IF more = {} THEN reached ELSE ZeroChain(s, reached \cup more)

\* The cells C19 expects a click at c to report, on the slots s, when the
\* cells of `rev` were revealed before the click.
FloodSet(s, rev, c) ==
    {c} \cup { q \in Cells : /\ q \in DOMAIN s
                             /\ ~s[q].hasMine
                             /\ q \notin rev
                             /\ \E z \in ZeroChain(s, {c} \cap ZeroCells(s)) :
                                    Adjacent(z, q) }

\* C19: a returned click at an unrevealed mine-free cell c of a board in play
\* reports exactly c and the unrevealed mine-free neighbours of the zero-count
\* cells chained to c; and no cell with a mine carries the reveal flag.
C19_FloodFillExact ==
    [][ /\ ( /\ ValidClickStep
             /\ state = "playing"
             /\ ret'.tag = "return"
             /\ lastClick' \in DOMAIN slots'
             /\ ~slots'[lastClick'].hasMine
             /\ lastClick' \notin Revealed )
           => { ret'.reveals[k].position : k \in DOMAIN ret'.reveals }
                  = FloodSet(slots', Revealed, lastClick')
        /\ \A p \in DOMAIN slots' : slots'[p].reveal => ~slots'[p].hasMine
      ]_vars

\* C19 witness: a click has reported a zero-count cell and a numbered cell, at
\* least three cells in all, and a mine-free cell beyond the numbered boundary
\* is still unrevealed.
C19_Witness ==
    /\ ValidCall /\ ret.tag = "return" /\ state = "playing"
    /\ Len(ret.reveals) >= 3
    /\ lastClick \in ZeroCells(slots)
    /\ \E p \in Reported : slots[p].nearbyMine > 0
    /\ \E p \in Cells : p \in DOMAIN slots /\ ~slots[p].hasMine /\ ~slots[p].reveal
    /\ revealCount = Len(ret.reveals)

\* C20: the flood fill of a click ends, and its result holds no position
\* twice and at most width * height positions, all of them on the board. Every
\* pop of the stack appends one entry to the result, and every pushed position
\* is popped before the loop ends, so the length of the result is the number of
\* pops and a result without repeats means that no position was pushed twice.
C20_FloodFillTerminates ==
    (fieldInited /\ ValidCall /\ ret.tag = "return")
    => ( /\ \A j, k \in DOMAIN ret.reveals :
              ret.reveals[j].position = ret.reveals[k].position => j = k
         /\ Len(ret.reveals) <= width * height
         /\ Reported \subseteq Cells )

\* C20 witness: one click has flooded a whole board of at least two rows and
\* two columns, where cells on the stack share unrevealed neighbours.
C20_Witness ==
    /\ fieldInited /\ ValidCall /\ ret.tag = "return"
    /\ width > 1 /\ height > 1
    /\ Len(ret.reveals) = width * height
    /\ Reported = Cells

====
